---- MODULE Spec2Model ----
(***************************************************************************)
(* Model of the achievement dashboard (class AchievementProgress and class *)
(* AchievementDashboard): the progress calculator, the loader, the tag     *)
(* buttons, the platform / search / sort handlers, applyFilters,           *)
(* applySorting and updateStats.                                           *)
(*                                                                         *)
(* Encoding of JavaScript values                                           *)
(*   strings        sequences of one-character strings, <<>> is the empty  *)
(*                  string and stands for every falsy name / id / path     *)
(*                  (null, undefined, '')                                  *)
(*   dates          lastAchievement is a day number > 0; NullDate (0) is   *)
(*                  null and AbsentDate (-1) is undefined (both falsy)     *)
(*   playedTime     a number >= 0, AbsentTime (-1) is undefined            *)
(*   tags           a sequence of tag names, <<>> for a missing or empty   *)
(*                  tags array (the code treats them alike)                *)
(*   objects        every game object carries uid, the identity of the JS  *)
(*                  object (its position in allGames)                      *)
(***************************************************************************)
EXTENDS Integers, Sequences, FiniteSets, TLC

(***************************************************************************)
(* Bounds                                                                  *)
(***************************************************************************)
\* largest achievement count handed to AchievementProgress.calculate
MaxCount == 200

\* number of raw records (before subset expansion) in the three data files
MaxGames == 2

\* length of the lists handed to the comparator sort on its own
MaxSortLen == 7

\* entries of the subsets object of a RetroAchievements record
MaxSubsets == 2

\* pending timers of the search handler beyond which no input is taken
MaxTimers == 2

(***************************************************************************)
(* Strings                                                                 *)
(***************************************************************************)
LowerCase ==
    << "a", "b", "c", "d", "e", "f", "g", "h", "i", "j", "k", "l", "m", "n",
       "o", "p", "q", "r", "s", "t", "u", "v", "w", "x", "y", "z" >>

UpperCase ==
    << "A", "B", "C", "D", "E", "F", "G", "H", "I", "J", "K", "L", "M", "N",
       "O", "P", "Q", "R", "S", "T", "U", "V", "W", "X", "Y", "Z" >>

Digits == << "0", "1", "2", "3", "4", "5", "6", "7", "8", "9" >>

\* the lower-case form of every upper-case letter
LowerOf ==
    [c \in {UpperCase[i] : i \in 1..Len(UpperCase)} |->
        LowerCase[CHOOSE i \in 1..Len(UpperCase) : UpperCase[i] = c]]

\* String.prototype.toLowerCase on one character
LowerChar(c) == IF c \in DOMAIN LowerOf THEN LowerOf[c] ELSE c

toLowerCase(s) == [i \in 1..Len(s) |-> LowerChar(s[i])]

\* String.prototype.includes: q occurs in s as a contiguous substring
includes(s, q) ==
    \E i \in 0..(Len(s) - Len(q)) : SubSeq(s, i + 1, i + Len(q)) = q

\* Collation order of the alphabet (primary weights): white space and
\* punctuation, then digits, then letters, upper and lower case alike.
CollationOrder == << " ", ":", "(", ")" >> \o Digits \o LowerCase

\* the place of every character in the collation order
WeightOf ==
    [c \in {CollationOrder[i] : i \in 1..Len(CollationOrder)} |->
        CHOOSE i \in 1..Len(CollationOrder) : CollationOrder[i] = c]

PrimaryWeight(c) == WeightOf[LowerChar(c)]

\* tertiary weight: a lower-case letter sorts before its upper-case form
TertiaryWeight(c) == IF LowerChar(c) = c THEN 0 ELSE 1

\* the weight of a character at a comparison level (1 primary, 3 tertiary)
Weight(c, level) == IF level = 1 THEN PrimaryWeight(c) ELSE TertiaryWeight(c)

\* the first difference of the weights of a and b from position i on
RECURSIVE CompareWeights(_, _, _, _)
CompareWeights(a, b, i, level) ==
    IF i > Len(a) /\ i > Len(b) THEN 0
    ELSE IF i > Len(a) THEN -1
    ELSE IF i > Len(b) THEN 1
    ELSE IF Weight(a[i], level) < Weight(b[i], level) THEN -1
    ELSE IF Weight(a[i], level) > Weight(b[i], level) THEN 1
    ELSE CompareWeights(a, b, i + 1, level)

\* the primary difference if there is one, else the tertiary one
FirstDifference(primary, tertiary) ==
    IF primary # 0 THEN primary ELSE tertiary

\* String.prototype.localeCompare: -1, 0 or 1
localeCompare(a, b) ==
    FirstDifference(CompareWeights(a, b, 1, 1), CompareWeights(a, b, 1, 3))

(***************************************************************************)
(* AchievementProgress                                                     *)
(***************************************************************************)
\* An argument of calculate: an integer n, the fraction n + 1/2, or one of
\* the non-finite numbers.
CalcInputs ==
    [k : {"int"}, n : (-2)..(MaxCount + 5)]
        \cup [k : {"half"}, n : (-2)..2]
        \cup [k : {"nan", "inf", "neginf"}, n : {0}]

\* Number.isFinite(num) && num >= 0 ? Math.floor(num) : 0
sanitizeNumber(value) ==
    IF value.k \in {"int", "half"} /\ value.n >= 0 THEN value.n ELSE 0

\* Math.min left out: earned is not capped
MinNoCap(a, b) == a

Min(a, b) == IF a <= b THEN a ELSE b

\* The quotients for which (cappedEarned / total) * 100, evaluated in IEEE
\* double precision, falls just below the exact value k + 1/2 (all such
\* quotients with total <= 419).
DoubleBelowHalf(cappedEarned, total) ==
    \/ 40 * cappedEarned = 23 * total
    \/ 200 * cappedEarned \in {29 * total, 57 * total, 113 * total}

\* Math.round((cappedEarned / total) * 100), total > 0
roundedPercentage(cappedEarned, total) ==
    LET exact == (200 * cappedEarned + total) \div (2 * total)
    IN  IF DoubleBelowHalf(cappedEarned, total) THEN exact - 1 ELSE exact

\* isComplete taken from the uncapped earned count
calculateUncappedComplete(totalAchievements, earnedAchievements) ==
    LET total == sanitizeNumber(totalAchievements)
        earned == sanitizeNumber(earnedAchievements)
    IN  IF total = 0
        THEN [percentage |-> 0, earned |-> 0, total |-> 0,
              isComplete |-> FALSE, status |-> "No Achievements",
              barWidth |-> "2px", cssClass |-> "", showRibbon |-> FALSE]
        ELSE LET cappedEarned == Min(earned, total)
                 percentage == roundedPercentage(cappedEarned, total)
                 isComplete == earned = total /\ total > 0
                 barWidth == IF percentage = 0 THEN "2px"
                             ELSE IF percentage < 1 THEN "2px"
                             ELSE "percentage%"
                 status == IF isComplete THEN "Complete"
                           ELSE IF percentage = 0 THEN "Not Started"
                           ELSE IF percentage < 25 THEN "Started"
                           ELSE IF percentage < 75 THEN "In Progress"
                           ELSE "Almost There"
             IN  [percentage |-> percentage, earned |-> cappedEarned,
                  total |-> total, isComplete |-> isComplete,
                  status |-> status, barWidth |-> barWidth,
                  cssClass |-> IF isComplete THEN "complete" ELSE "",
                  showRibbon |-> isComplete]

\* the 'Started' band closed at 25 (<= for <)
calculateStartedInclusive(totalAchievements, earnedAchievements) ==
    LET total == sanitizeNumber(totalAchievements)
        earned == sanitizeNumber(earnedAchievements)
    IN  IF total = 0
        THEN [percentage |-> 0, earned |-> 0, total |-> 0,
              isComplete |-> FALSE, status |-> "No Achievements",
              barWidth |-> "2px", cssClass |-> "", showRibbon |-> FALSE]
        ELSE LET cappedEarned == Min(earned, total)
                 percentage == roundedPercentage(cappedEarned, total)
                 isComplete == cappedEarned = total /\ total > 0
                 barWidth == IF percentage = 0 THEN "2px"
                             ELSE IF percentage < 1 THEN "2px"
                             ELSE "percentage%"
                 status == IF isComplete THEN "Complete"
                           ELSE IF percentage = 0 THEN "Not Started"
                           ELSE IF percentage <= 25 THEN "Started"
                           ELSE IF percentage < 75 THEN "In Progress"
                           ELSE "Almost There"
             IN  [percentage |-> percentage, earned |-> cappedEarned,
                  total |-> total, isComplete |-> isComplete,
                  status |-> status, barWidth |-> barWidth,
                  cssClass |-> IF isComplete THEN "complete" ELSE "",
                  showRibbon |-> isComplete]

calculate(totalAchievements, earnedAchievements) ==
    LET total == sanitizeNumber(totalAchievements)
        earned == sanitizeNumber(earnedAchievements)
    IN  IF total = 0
        THEN [percentage |-> 0, earned |-> 0, total |-> 0,
              isComplete |-> FALSE, status |-> "No Achievements",
              barWidth |-> "2px", cssClass |-> "", showRibbon |-> FALSE]
        ELSE LET cappedEarned == Min(earned, total)
                 percentage == roundedPercentage(cappedEarned, total)
                 isComplete == cappedEarned = total /\ total > 0
                 barWidth == IF percentage = 0 THEN "2px"
                             ELSE IF percentage < 1 THEN "2px"
                             ELSE "percentage%"
                 status == IF isComplete THEN "Complete"
                           ELSE IF percentage = 0 THEN "Not Started"
                           ELSE IF percentage < 25 THEN "Started"
                           ELSE IF percentage < 75 THEN "In Progress"
                           ELSE "Almost There"
             IN  [percentage |-> percentage, earned |-> cappedEarned,
                  total |-> total, isComplete |-> isComplete,
                  status |-> status, barWidth |-> barWidth,
                  cssClass |-> IF isComplete THEN "complete" ELSE "",
                  showRibbon |-> isComplete]

(***************************************************************************)
(* Data files                                                              *)
(***************************************************************************)
NullDate == 0
AbsentDate == -1
AbsentTime == -1

\* new Date().toISOString().split('T')[0], a day after every date in the data
Today == 9

Platforms == << "steam", "gog", "retroachievements" >>

Tags == {"x", "y"}

NoSubset ==
    [key |-> <<>>, name |-> <<>>, coverImage |-> <<>>, totalAchievements |-> 0,
     unlockedAchievements |-> 0, lastAchievement |-> AbsentDate,
     playedTime |-> AbsentTime]

\* A raw record of a data file.  subsets lists the entries of the subsets
\* object in the order Object.entries yields them (integer-like keys first).
RawGame(id, nm, total, unlocked, last, played, cover, tg) ==
    [platformId |-> id, name |-> nm, totalAchievements |-> total,
     unlockedAchievements |-> unlocked, lastAchievement |-> last,
     playedTime |-> played, coverImage |-> cover, tags |-> tg,
     hasSubsets |-> FALSE, subsets |-> << >>]

SteamPool ==
    << RawGame(<<"1">>, <<"A", "b">>, 2, 2, 2, 1, <<>>, <<"x">>),
       RawGame(<<"2">>, <<"b">>, 2, 1, 2, AbsentTime, <<"c">>, <<"x", "y">>) >>

GogPool ==
    << RawGame(<<"1">>, <<"a", "B">>, 0, 0, NullDate, 1, <<>>, <<>>),
       RawGame(<<"2">>, <<>>, 2, 3, 1, 2, <<>>, <<"y">>) >>

RetroPool ==
    << RawGame(<<"1">>, <<"a">>, 4, 2, AbsentDate, 0, <<>>, <<"y">>),
       [RawGame(<<"2">>, <<"B">>, 2, 2, 1, 2, <<"c">>, <<"x">>)
           EXCEPT !.hasSubsets = TRUE,
                  !.subsets =
                      << [NoSubset EXCEPT !.key = <<"7">>, !.name = <<"a">>,
                                          !.totalAchievements = 0,
                                          !.unlockedAchievements = 1,
                                          !.playedTime = 0],
                         [NoSubset EXCEPT !.key = <<"B", "a", "s", "e">>,
                                          !.totalAchievements = 2,
                                          !.unlockedAchievements = 1,
                                          !.lastAchievement = 2] >>] >>

Pool(platform) ==
    CASE platform = "steam" -> SteamPool
      [] platform = "gog" -> GogPool
      [] platform = "retroachievements" -> RetroPool

\* The arrays one data file can hold: the records of the platform's pool, each
\* at most once, in either order.
FileArrays(platform) ==
    LET p == Pool(platform)
    IN  {<<>>, <<p[1]>>, <<p[2]>>, <<p[1], p[2]>>, <<p[2], p[1]>>}

\* The outcome of fetch + response.json() for one file: ok is FALSE when the
\* response is not ok or fetching / parsing throws.
FetchResults(platform) ==
    {[ok |-> FALSE, games |-> <<>>]}
        \cup {[ok |-> TRUE, games |-> g] : g \in FileArrays(platform)}

DataFiles ==
    {f \in [steam : FetchResults("steam"), gog : FetchResults("gog"),
            retroachievements : FetchResults("retroachievements")] :
        Len(f.steam.games) + Len(f.gog.games)
            + Len(f.retroachievements.games) <= MaxGames}

(***************************************************************************)
(* Array.prototype.sort                                                    *)
(*                                                                         *)
(* The comparators return a JavaScript number; only its sign matters, and  *)
(* NaN is kept apart: -1, 0, 1, or NaN.  The sort is the one V8 runs on    *)
(* arrays shorter than 64 elements (one run found by CountAndMakeRun,      *)
(* extended by BinaryInsertionSort; a NaN from the comparator counts as    *)
(* 0).  With a consistent comparator it is the stable sort the language    *)
(* prescribes.                                                             *)
(***************************************************************************)
NaN == 2

Sign(n) == IF n < 0 THEN -1 ELSE IF n > 0 THEN 1 ELSE 0

\* dates compared ascending (a - b for b - a)
recentCompareAscending(a, b) ==
    IF a.lastAchievement > 0 /\ b.lastAchievement > 0
    THEN Sign(a.lastAchievement - b.lastAchievement)
    ELSE IF a.lastAchievement > 0 /\ ~(b.lastAchievement > 0) THEN -1
    ELSE IF ~(a.lastAchievement > 0) /\ b.lastAchievement > 0 THEN 1
    ELSE localeCompare(a.name, b.name)

\* no fallback to the name
recentCompareNoName(a, b) ==
    IF a.lastAchievement > 0 /\ b.lastAchievement > 0
    THEN Sign(b.lastAchievement - a.lastAchievement)
    ELSE IF a.lastAchievement > 0 /\ ~(b.lastAchievement > 0) THEN -1
    ELSE IF ~(a.lastAchievement > 0) /\ b.lastAchievement > 0 THEN 1
    ELSE 0

\* new Date(b.lastAchievement) - new Date(a.lastAchievement)
\*   ... -1 / 1 on a one-sided date ... a.name.localeCompare(b.name)
recentCompare(a, b) ==
    IF a.lastAchievement > 0 /\ b.lastAchievement > 0
    THEN Sign(b.lastAchievement - a.lastAchievement)
    ELSE IF a.lastAchievement > 0 /\ ~(b.lastAchievement > 0) THEN -1
    ELSE IF ~(a.lastAchievement > 0) /\ b.lastAchievement > 0 THEN 1
    ELSE localeCompare(a.name, b.name)

\* the load ordering by name alone
loadCompareByName(a, b) == localeCompare(a.name, b.name)

\* the comparator of the sort in loadAchievements
loadCompare(a, b) ==
    IF a.lastAchievement > 0 /\ b.lastAchievement > 0
    THEN Sign(b.lastAchievement - a.lastAchievement)
    ELSE IF a.lastAchievement > 0 /\ ~(b.lastAchievement > 0) THEN -1
    ELSE IF ~(a.lastAchievement > 0) /\ b.lastAchievement > 0 THEN 1
    ELSE localeCompare(a.name, b.name)

\* completionB - completionA with completion = (unlocked / total) * 100:
\* x / 0 is Infinity for x > 0 and NaN for x = 0; Infinity - Infinity and
\* every difference with a NaN operand are NaN.
completionCompare(a, b) ==
    LET nanA == a.totalAchievements = 0 /\ a.unlockedAchievements = 0
        nanB == b.totalAchievements = 0 /\ b.unlockedAchievements = 0
        infA == a.totalAchievements = 0 /\ a.unlockedAchievements > 0
        infB == b.totalAchievements = 0 /\ b.unlockedAchievements > 0
    IN  IF nanA \/ nanB \/ (infA /\ infB) THEN NaN
        ELSE IF infB THEN 1
        ELSE IF infA THEN -1
        ELSE Sign(b.unlockedAchievements * a.totalAchievements
                    - a.unlockedAchievements * b.totalAchievements)

\* timeB - timeA with time = playedTime || 0
playtimeCompare(a, b) ==
    LET timeA == IF a.playedTime > 0 THEN a.playedTime ELSE 0
        timeB == IF b.playedTime > 0 THEN b.playedTime ELSE 0
    IN  Sign(timeB - timeA)

nameCompare(a, b) == localeCompare(a.name, b.name)

\* the comparator applySorting hands to sort, by this.currentSort
sortComparator(currentSort, a, b) ==
    CASE currentSort = "name" -> nameCompare(a, b)
      [] currentSort = "completion" -> completionCompare(a, b)
      [] currentSort = "playtime" -> playtimeCompare(a, b)
      [] currentSort = "load" -> loadCompare(a, b)
      [] OTHER -> recentCompare(a, b)

\* the sort's reading of a comparator's result: NaN counts as 0
NaNToZero(v) == IF v = NaN THEN 0 ELSE v

\* what the sort sees of a comparator call
SortCompare(currentSort, x, y) == NaNToZero(sortComparator(currentSort, x, y))

Reverse(s) == [i \in 1..Len(s) |-> s[Len(s) + 1 - i]]

\* length of the run starting at the first element: strictly descending if
\* the second element sorts before the first, else non-descending
RECURSIVE RunLength(_, _, _, _)
RunLength(s, currentSort, isDescending, idx) ==
    IF idx > Len(s) THEN idx - 1
    ELSE IF isDescending = (SortCompare(currentSort, s[idx], s[idx - 1]) >= 0)
         THEN idx - 1
         ELSE RunLength(s, currentSort, isDescending, idx + 1)

\* the array with its first run, of length runLength, made ascending
MakeRun(s, isDescending, runLength) ==
    [arr |-> IF isDescending
             THEN Reverse(SubSeq(s, 1, runLength))
                      \o SubSeq(s, runLength + 1, Len(s))
             ELSE s,
     len |-> runLength]

\* the first run counted, then made ascending
CountRun(s, currentSort, isDescending) ==
    MakeRun(s, isDescending, RunLength(s, currentSort, isDescending, 3))

\* a run of equal elements taken for a descending one (<= for <)
CountAndMakeRunTiesDescending(s, currentSort) ==
    CountRun(s, currentSort, SortCompare(currentSort, s[2], s[1]) <= 0)

\* Len(s) >= 2: the array with its first run made ascending, and the run's
\* length
CountAndMakeRun(s, currentSort) ==
    CountRun(s, currentSort, SortCompare(currentSort, s[2], s[1]) < 0)

\* the insertion point of pivot in s[left+1 .. right] (0-based left, right)
RECURSIVE BinarySearch(_, _, _, _, _)
BinarySearch(s, currentSort, pivot, left, right) ==
    IF left >= right THEN left
    ELSE IF SortCompare(currentSort, pivot,
                        s[left + ((right - left) \div 2) + 1]) < 0
         THEN BinarySearch(s, currentSort, pivot, left,
                           left + ((right - left) \div 2))
         ELSE BinarySearch(s, currentSort, pivot,
                           left + ((right - left) \div 2) + 1, right)

\* s with s[start+1] moved to position left+1 (0-based left)
InsertPivot(s, left, start) ==
    SubSeq(s, 1, left) \o << s[start + 1] >> \o SubSeq(s, left + 1, start)
        \o SubSeq(s, start + 2, Len(s))

\* s[1 .. start] is sorted; insert s[start+1], s[start+2], ... one by one
RECURSIVE BinaryInsertionSort(_, _, _)
BinaryInsertionSort(s, currentSort, start) ==
    IF start >= Len(s) THEN s
    ELSE BinaryInsertionSort(
             InsertPivot(s, BinarySearch(s, currentSort, s[start + 1], 0, start),
                         start),
             currentSort, start + 1)

\* the insertion sort run on what CountAndMakeRun returns
SortFromRun(run, currentSort) ==
    BinaryInsertionSort(run.arr, currentSort, run.len)

ArraySort(s, currentSort) ==
    IF Len(s) < 2 THEN s
    ELSE SortFromRun(CountAndMakeRun(s, currentSort), currentSort)

(***************************************************************************)
(* State                                                                   *)
(***************************************************************************)
VARIABLES
    files,                  \* what the three fetches of data/<platform>.json yield
    phase,                  \* "loading", then "ready" or "failed" (init threw)
    achievements,           \* this.achievements, the base list
    filteredAchievements,   \* this.filteredAchievements, the view
    viewSharesBase,         \* TRUE while both fields hold the same array object
    currentPlatform,
    currentSort,
    searchQuery,
    includedTags,
    excludedTags,
    allTags,
    tagList,                \* the tags of the items of #tag-list, in order
    inputValue,             \* value of the #search-input element
    searchTimeout,          \* number of pending timers the search handler armed
    totalAchievementsText,  \* text of #total-achievements
    completedGamesText,     \* text of #rare-achievements
    calcArgs,               \* arguments of a call of AchievementProgress.calculate
    calcResult,             \* the descriptor it returned
    sortInput,              \* a list handed to applySorting on its own
    sortKey,
    sortOutput,
    activatedCard,          \* uid of the record whose card was activated last
    activatedGame,          \* uid of the record the handler found for it
    openedLink              \* the link last handed to window.open

dashVars ==
    << files, phase, achievements, filteredAchievements, viewSharesBase,
       currentPlatform, currentSort, searchQuery, includedTags, excludedTags,
       allTags, tagList, inputValue, searchTimeout, totalAchievementsText,
       completedGamesText >>

calcVars == << calcArgs, calcResult >>

sortVars == << sortInput, sortKey, sortOutput >>

cardVars == << activatedCard, activatedGame, openedLink >>

vars == << dashVars, calcVars, sortVars, cardVars >>

(***************************************************************************)
(* loadAchievements                                                        *)
(***************************************************************************)
BaseKey == << "B", "a", "s", "e" >>

\* parentId left null on the entry of the 'Base' key
subsetEntryBaseWithoutParent(game, subset, platform) ==
    LET isBase == subset.key = BaseKey
        setId == IF isBase THEN game.platformId ELSE subset.key
        displayName ==
            IF isBase THEN game.name
            ELSE IF game.name # <<>> /\ subset.name # <<>>
                 THEN game.name \o <<":", " ">> \o subset.name
                 ELSE subset.name
    IN  [platformId |-> setId,
         parentId |-> IF isBase THEN <<>> ELSE game.platformId,
         isSubset |-> ~isBase,
         subsetId |-> IF isBase THEN <<>> ELSE subset.key,
         name |-> displayName,
         coverImage |-> subset.coverImage,
         totalAchievements |-> subset.totalAchievements,
         unlockedAchievements |-> subset.unlockedAchievements,
         lastAchievement |-> IF subset.lastAchievement > 0
                             THEN subset.lastAchievement
                             ELSE game.lastAchievement,
         playedTime |-> IF subset.playedTime > 0
                        THEN subset.playedTime
                        ELSE game.playedTime,
         tags |-> game.tags,
         platform |-> platform]

\* the object pushed for one entry [key, subset] of game.subsets
subsetEntry(game, subset, platform) ==
    LET isBase == subset.key = BaseKey
        setId == IF isBase THEN game.platformId ELSE subset.key
        displayName ==
            IF isBase THEN game.name
            ELSE IF game.name # <<>> /\ subset.name # <<>>
                 THEN game.name \o <<":", " ">> \o subset.name
                 ELSE subset.name
    IN  [platformId |-> setId,
         parentId |-> game.platformId,
         isSubset |-> ~isBase,
         subsetId |-> IF isBase THEN <<>> ELSE subset.key,
         name |-> displayName,
         coverImage |-> subset.coverImage,
         totalAchievements |-> subset.totalAchievements,
         unlockedAchievements |-> subset.unlockedAchievements,
         lastAchievement |-> IF subset.lastAchievement > 0
                             THEN subset.lastAchievement
                             ELSE game.lastAchievement,
         playedTime |-> IF subset.playedTime > 0
                        THEN subset.playedTime
                        ELSE game.playedTime,
         tags |-> game.tags,
         platform |-> platform]

\* the object pushed for a record without subsets: { ...game, platform }
plainEntry(game, platform) ==
    [platformId |-> game.platformId,
     parentId |-> <<>>,
     isSubset |-> FALSE,
     subsetId |-> <<>>,
     name |-> game.name,
     coverImage |-> game.coverImage,
     totalAchievements |-> game.totalAchievements,
     unlockedAchievements |-> game.unlockedAchievements,
     lastAchievement |-> game.lastAchievement,
     playedTime |-> game.playedTime,
     tags |-> game.tags,
     platform |-> platform]

\* the record with subsets pushed as it is, next to its subsets' entries
expandGameKeepsParent(game, platform) ==
    IF platform = "retroachievements" /\ game.hasSubsets
    THEN << plainEntry(game, platform) >>
             \o [i \in 1..Len(game.subsets) |->
                    subsetEntry(game, game.subsets[i], platform)]
    ELSE << plainEntry(game, platform) >>

\* what platformGames.forEach pushes for one raw record
expandGame(game, platform) ==
    IF platform = "retroachievements" /\ game.hasSubsets
    THEN [i \in 1..Len(game.subsets) |->
              subsetEntry(game, game.subsets[i], platform)]
    ELSE << plainEntry(game, platform) >>

RECURSIVE expandGames(_, _)
expandGames(platformGames, platform) ==
    IF platformGames = <<>> THEN <<>>
    ELSE expandGame(Head(platformGames), platform)
             \o expandGames(Tail(platformGames), platform)

\* one failed fetch makes every platform contribute nothing
platformEntriesAllOrNothing(f, platform) ==
    IF f.steam.ok /\ f.gog.ok /\ f.retroachievements.ok
    THEN expandGames(f[platform].games, platform)
    ELSE <<>>

\* what one pass of the for-loop over platforms adds to allGames
platformEntries(f, platform) ==
    IF f[platform].ok THEN expandGames(f[platform].games, platform) ELSE <<>>

\* allGames after the loop, in push order
collectAllGames(f) ==
    platformEntries(f, "steam") \o platformEntries(f, "gog")
        \o platformEntries(f, "retroachievements")

\* ${id} in a template literal: a missing platformId reads 'undefined'
TemplateText(id) == IF id = <<>> THEN << "undefined" >> ELSE id

generateCoverImagePath(game) ==
    IF game.platform \in {"steam", "gog", "retroachievements"}
    THEN << "assets/covers/", game.platform, "/" >>
             \o TemplateText(game.platformId) \o << ".jpg" >>
    ELSE <<>>

UnknownGame == << "U", "n", "k", "n", "o", "w", "n", " ", "G", "a", "m", "e",
                  " ", "(" >>

\* the entry copied with the name and the cover it came with
normalizeGameAsIs(game, uid) ==
    [uid |-> uid,
     platform |-> game.platform,
     platformId |-> game.platformId,
     parentId |-> game.parentId,
     isSubset |-> game.isSubset,
     subsetId |-> game.subsetId,
     name |-> game.name,
     coverImage |-> game.coverImage,
     totalAchievements |-> game.totalAchievements,
     unlockedAchievements |-> game.unlockedAchievements,
     lastAchievement |-> game.lastAchievement,
     playedTime |-> game.playedTime,
     tags |-> game.tags,
     isCompleted |-> game.lastAchievement # NullDate,
     lastPlayed |-> IF game.lastAchievement > 0 THEN game.lastAchievement
                    ELSE Today]

\* the object allGames.map builds; uid is the identity of the new object
normalizeGame(game, uid) ==
    [uid |-> uid,
     platform |-> game.platform,
     platformId |-> game.platformId,
     parentId |-> game.parentId,
     isSubset |-> game.isSubset,
     subsetId |-> game.subsetId,
     name |-> IF game.name # <<>> THEN game.name
              ELSE UnknownGame \o TemplateText(game.platformId) \o << ")" >>,
     coverImage |-> IF game.coverImage # <<>> THEN game.coverImage
                    ELSE generateCoverImagePath(game),
     totalAchievements |-> game.totalAchievements,
     unlockedAchievements |-> game.unlockedAchievements,
     lastAchievement |-> game.lastAchievement,
     playedTime |-> game.playedTime,
     tags |-> game.tags,
     isCompleted |-> game.lastAchievement # NullDate,
     lastPlayed |-> IF game.lastAchievement > 0 THEN game.lastAchievement
                    ELSE Today]

\* allGames.map(game => ({ ... })): one new object for each entry
mapGames(allGames) ==
    [i \in 1..Len(allGames) |-> normalizeGame(allGames[i], i)]

\* this.achievements after the map and the sort
loadedAchievements(f) == ArraySort(mapGames(collectAllGames(f)), "load")

\* extractAllTags: the tags of every game, each once
extractAllTags(games) ==
    UNION {{games[i].tags[j] : j \in 1..Len(games[i].tags)} :
              i \in 1..Len(games)}

\* the UTF-16 code unit of a one-character tag
TagCode(tag) == CASE tag = "x" -> 120 [] tag = "y" -> 121

\* Array.from(tagSet).sort(): ascending by code units
defaultSort(tagSet) ==
    [j \in 1..Cardinality(tagSet) |->
        CHOOSE t \in tagSet :
            Cardinality({u \in tagSet : TagCode(u) < TagCode(t)}) = j - 1]

\* the items in the reverse of the sorted order
renderTagFiltersDescending(tagSet) == Reverse(defaultSort(tagSet))

\* renderTagFilters: one item of #tag-list for each tag of sortedTags (with
\* no tag at all the list, empty at load, is left as it is)
renderTagFilters(tagSet) == defaultSort(tagSet)

(***************************************************************************)
(* applyFilters, applySorting, updateStats                                 *)
(***************************************************************************)
hasTagIn(game, tagSet) == \E j \in 1..Len(game.tags) : game.tags[j] \in tagSet

\* the search compares the name as it is written, without toLowerCase
passesFiltersCaseSensitive(game, platform, included, excluded, query) ==
    IF platform # "all" /\ game.platform # platform THEN FALSE
    ELSE IF (included # {} \/ excluded # {})
            /\ included # {} /\ ~hasTagIn(game, included) THEN FALSE
    ELSE IF (included # {} \/ excluded # {})
            /\ excluded # {} /\ hasTagIn(game, excluded) THEN FALSE
    ELSE IF query # <<>> /\ ~includes(game.name, toLowerCase(query)) THEN FALSE
    ELSE TRUE

\* the excluded tags are looked at only when no tag is included
passesFiltersIncludeFirst(game, platform, included, excluded, query) ==
    IF platform # "all" /\ game.platform # platform THEN FALSE
    ELSE IF included # {} /\ ~hasTagIn(game, included) THEN FALSE
    ELSE IF included = {} /\ excluded # {} /\ hasTagIn(game, excluded)
         THEN FALSE
    ELSE IF query # <<>>
            /\ ~includes(toLowerCase(game.name), toLowerCase(query)) THEN FALSE
    ELSE TRUE

\* the callback of this.achievements.filter
passesFilters(game, platform, included, excluded, query) ==
    IF platform # "all" /\ game.platform # platform THEN FALSE
    ELSE IF (included # {} \/ excluded # {})
            /\ included # {} /\ ~hasTagIn(game, included) THEN FALSE
    ELSE IF (included # {} \/ excluded # {})
            /\ excluded # {} /\ hasTagIn(game, excluded) THEN FALSE
    ELSE IF query # <<>>
            /\ ~includes(toLowerCase(game.name), toLowerCase(query)) THEN FALSE
    ELSE TRUE

filterGames(games, platform, included, excluded, query) ==
    LET keep(game) == passesFilters(game, platform, included, excluded, query)
    IN  SelectSeq(games, keep)

applySorting(games, sortBy) == ArraySort(games, sortBy)

RECURSIVE sumUnlocked(_)
sumUnlocked(games) ==
    IF games = <<>> THEN 0
    ELSE Head(games).unlockedAchievements + sumUnlocked(Tail(games))

countsAsCompleted(game) ==
    game.totalAchievements > 0
        /\ game.unlockedAchievements = game.totalAchievements

completedGames(games) == Len(SelectSeq(games, countsAsCompleted))

\* updateStats, over this.filteredAchievements as the caller has just set it
updateStats ==
    /\ totalAchievementsText' = sumUnlocked(filteredAchievements')
    /\ completedGamesText' = completedGames(filteredAchievements')

\* applyFilters under the criteria in force after the handler's assignments;
\* Array.prototype.filter returns a new array, which applySorting then sorts
applyFilters(platform, included, excluded, query) ==
    /\ filteredAchievements' =
           applySorting(
               filterGames(achievements, platform, included, excluded, query),
               currentSort)
    /\ viewSharesBase' = FALSE
    /\ updateStats

(***************************************************************************)
(* getGameLink, generateGameId                                             *)
(***************************************************************************)
\* a link is the sequence of its parts; <<>> is null
RetroLink(id, game) ==
    IF game.isSubset /\ game.subsetId # <<>>
    THEN << "https://retroachievements.org/game/" >> \o id
             \o << "?set=" >> \o game.subsetId
    ELSE << "https://retroachievements.org/game/" >> \o id

\* the retroachievements link built from the record's own id alone
getGameLinkOwnId(game) ==
    IF game.platformId = <<>> THEN <<>>
    ELSE IF game.platform = "retroachievements"
         THEN << "https://retroachievements.org/game/" >> \o game.platformId
    ELSE IF game.platform = "steam"
         THEN << "https://steamcommunity.com/stats/" >> \o game.platformId
                  \o << "/achievements" >>
    ELSE IF game.platform = "gog"
         THEN << "https://www.gog.com/game/" >> \o game.platformId
    ELSE <<>>

getGameLink(game) ==
    IF game.platformId = <<>> THEN <<>>
    ELSE IF game.platform = "retroachievements"
         THEN RetroLink(IF game.parentId # <<>> THEN game.parentId
                        ELSE game.platformId, game)
    ELSE IF game.platform = "steam"
         THEN << "https://steamcommunity.com/stats/" >> \o game.platformId
                  \o << "/achievements" >>
    ELSE IF game.platform = "gog"
         THEN << "https://www.gog.com/game/" >> \o game.platformId
    ELSE <<>>

\* the characters of the class [a-z0-9]
Alnum ==
    {Digits[i] : i \in 1..Len(Digits)}
        \cup {LowerCase[i] : i \in 1..Len(LowerCase)}

\* s without its leading characters outside [a-z0-9]
RECURSIVE SkipNonAlnum(_)
SkipNonAlnum(s) ==
    IF s = <<>> \/ Head(s) \in Alnum THEN s ELSE SkipNonAlnum(Tail(s))

\* .replace(/[^a-z0-9]+/g, '-')
RECURSIVE ReplaceNonAlnum(_)
ReplaceNonAlnum(s) ==
    IF s = <<>> THEN <<>>
    ELSE IF Head(s) \in Alnum THEN << Head(s) >> \o ReplaceNonAlnum(Tail(s))
    ELSE << "-" >> \o ReplaceNonAlnum(SkipNonAlnum(Tail(s)))

\* .replace(/^-|-$/g, '')
TrimDashes(s) ==
    SubSeq(s,
           IF s # <<>> /\ Head(s) = "-" THEN 2 ELSE 1,
           IF Len(s) > 1 /\ s[Len(s)] = "-" THEN Len(s) - 1 ELSE Len(s))

generateGameId(gameName) == TrimDashes(ReplaceNonAlnum(toLowerCase(gameName)))

\* this.achievements.find(g => this.generateGameId(g.name) === gameId), for a
\* gameId some game of the list has
findGame(games, gameId) ==
    games[CHOOSE k \in 1..Len(games) :
              /\ generateGameId(games[k].name) = gameId
              /\ \A m \in 1..(k - 1) : generateGameId(games[m].name) # gameId]

(***************************************************************************)
(* Initial state: the dashboard object as the constructor leaves it, with  *)
(* init() pending                                                          *)
(***************************************************************************)
NoArg == [k |-> "none", n |-> 0]

NoResult ==
    [percentage |-> -1, earned |-> -1, total |-> -1, isComplete |-> FALSE,
     status |-> "none", barWidth |-> "", cssClass |-> "",
     showRibbon |-> FALSE]

NoFiles ==
    [steam |-> [ok |-> FALSE, games |-> <<>>],
     gog |-> [ok |-> FALSE, games |-> <<>>],
     retroachievements |-> [ok |-> FALSE, games |-> <<>>]]

Constructed ==
    /\ phase = "loading"
    /\ achievements = <<>>
    /\ filteredAchievements = <<>>
    /\ viewSharesBase = FALSE
    /\ currentPlatform = "all"
    /\ currentSort = "recent"
    /\ searchQuery = <<>>
    /\ includedTags = {}
    /\ excludedTags = {}
    /\ allTags = {}
    /\ tagList = <<>>
    /\ inputValue = <<>>
    /\ searchTimeout = 0
    /\ totalAchievementsText = 0
    /\ completedGamesText = 0

CalcIdle == calcArgs = <<NoArg, NoArg>> /\ calcResult = NoResult

SortIdle == sortInput = <<>> /\ sortKey = "none" /\ sortOutput = <<>>

\* no card has been activated
NoGame == 0

CardIdle == activatedCard = NoGame /\ activatedGame = NoGame /\ openedLink = <<>>

Init ==
    /\ files \in DataFiles
    /\ Constructed
    /\ CalcIdle
    /\ SortIdle
    /\ CardIdle

(***************************************************************************)
(* Actions of the dashboard                                                *)
(***************************************************************************)
\* the load with this.filteredAchievements = this.achievements, no copy
LoadAchievementsNoCopy ==
    /\ phase = "loading"
    /\ IF collectAllGames(files) = <<>>
       THEN /\ phase' = "failed"
            /\ UNCHANGED << achievements, filteredAchievements,
                            viewSharesBase, allTags, tagList, totalAchievementsText,
                            completedGamesText >>
       ELSE /\ phase' = "ready"
            /\ achievements' = loadedAchievements(files)
            /\ filteredAchievements' = achievements'
            /\ viewSharesBase' = TRUE
            /\ allTags' = extractAllTags(achievements')
            /\ tagList' = renderTagFilters(allTags')
            /\ updateStats
    /\ UNCHANGED << files, currentPlatform, currentSort, searchQuery,
                    includedTags, excludedTags, inputValue, searchTimeout,
                    calcVars, sortVars, cardVars >>

\* init(): loadAchievements, then setupEventListeners and updateStats; when
\* loadAchievements throws, the constructor's catch sets up the listeners.
LoadAchievements ==
    /\ phase = "loading"
    /\ IF collectAllGames(files) = <<>>
       THEN /\ phase' = "failed"
            /\ UNCHANGED << achievements, filteredAchievements,
                            viewSharesBase, allTags, tagList, totalAchievementsText,
                            completedGamesText >>
       ELSE /\ phase' = "ready"
            /\ achievements' = loadedAchievements(files)
            /\ filteredAchievements' = achievements'
            /\ viewSharesBase' = FALSE
            /\ allTags' = extractAllTags(achievements')
            /\ tagList' = renderTagFilters(allTags')
            /\ updateStats
    /\ UNCHANGED << files, currentPlatform, currentSort, searchQuery,
                    includedTags, excludedTags, inputValue, searchTimeout,
                    calcVars, sortVars, cardVars >>

ListenersSetUp == phase \in {"ready", "failed"}

PlatformOptions == {"all", "steam", "gog", "retroachievements"}

PlatformChange(value) ==
    /\ ListenersSetUp
    /\ value # currentPlatform
    /\ currentPlatform' = value
    /\ applyFilters(value, includedTags, excludedTags, searchQuery)
    /\ UNCHANGED << files, phase, achievements, currentSort, searchQuery,
                    includedTags, excludedTags, allTags, tagList, inputValue,
                    searchTimeout, calcVars, sortVars, cardVars >>

\* the include button without this.excludedTags.delete(tag)
IncludeClickKeepsExcluded(tag) ==
    /\ phase = "ready"
    /\ tag \in allTags
    /\ IF tag \in includedTags
       THEN includedTags' = includedTags \ {tag}
       ELSE includedTags' = includedTags \cup {tag}
    /\ excludedTags' = excludedTags
    /\ applyFilters(currentPlatform, includedTags', excludedTags', searchQuery)
    /\ UNCHANGED << files, phase, achievements, currentPlatform, currentSort,
                    searchQuery, allTags, tagList, inputValue, searchTimeout,
                    calcVars, sortVars, cardVars >>

\* click on the include button renderTagFilters made for tag
IncludeClick(tag) ==
    /\ phase = "ready"
    /\ tag \in allTags
    /\ IF tag \in includedTags
       THEN /\ includedTags' = includedTags \ {tag}
            /\ excludedTags' = excludedTags
       ELSE /\ includedTags' = includedTags \cup {tag}
            /\ excludedTags' = excludedTags \ {tag}
    /\ applyFilters(currentPlatform, includedTags', excludedTags', searchQuery)
    /\ UNCHANGED << files, phase, achievements, currentPlatform, currentSort,
                    searchQuery, allTags, tagList, inputValue, searchTimeout,
                    calcVars, sortVars, cardVars >>

\* click on the exclude button renderTagFilters made for tag
ExcludeClick(tag) ==
    /\ phase = "ready"
    /\ tag \in allTags
    /\ IF tag \in excludedTags
       THEN /\ excludedTags' = excludedTags \ {tag}
            /\ includedTags' = includedTags
       ELSE /\ excludedTags' = excludedTags \cup {tag}
            /\ includedTags' = includedTags \ {tag}
    /\ applyFilters(currentPlatform, includedTags', excludedTags', searchQuery)
    /\ UNCHANGED << files, phase, achievements, currentPlatform, currentSort,
                    searchQuery, allTags, tagList, inputValue, searchTimeout,
                    calcVars, sortVars, cardVars >>

SearchInputs == {<<>>, <<"a">>, <<"A", "b">>}

\* the handler without clearTimeout: the timer armed before stays pending
clearTimeoutNothing(pending) == pending

\* clearTimeout(searchTimeout): the closure variable holds the id of the
\* timer armed last, which is cancelled if it has not fired yet
clearTimeout(pending) == IF pending > 0 THEN pending - 1 ELSE 0

\* input event on #search-input: clearTimeout, then setTimeout
SearchInput(value) ==
    /\ ListenersSetUp
    /\ value # inputValue
    /\ clearTimeout(searchTimeout) < MaxTimers
    /\ inputValue' = value
    /\ searchTimeout' = clearTimeout(searchTimeout) + 1
    /\ UNCHANGED << files, phase, achievements, filteredAchievements,
                    viewSharesBase, currentPlatform, currentSort, searchQuery, includedTags,
                    excludedTags, allTags, tagList, totalAchievementsText,
                    completedGamesText, calcVars, sortVars, cardVars >>

\* a pending timer fires, 150 ms after it was armed
SearchTimeout ==
    /\ searchTimeout > 0
    /\ searchTimeout' = searchTimeout - 1
    /\ searchQuery' = toLowerCase(inputValue)
    /\ applyFilters(currentPlatform, includedTags, excludedTags, searchQuery')
    /\ UNCHANGED << files, phase, achievements, currentPlatform, currentSort,
                    includedTags, excludedTags, allTags, tagList, inputValue,
                    calcVars, sortVars, cardVars >>

SortOptions == {"recent", "name", "completion", "playtime"}

\* the handler without its call of applySorting
SortChangeNoSorting(value) ==
    /\ ListenersSetUp
    /\ value # currentSort
    /\ currentSort' = value
    /\ UNCHANGED << files, phase, achievements, filteredAchievements,
                    viewSharesBase, currentPlatform, searchQuery, includedTags, excludedTags,
                    allTags, tagList, inputValue, searchTimeout, totalAchievementsText,
                    completedGamesText, calcVars, sortVars, cardVars >>

\* change event on #sort-select: applySorting and renderAchievements only.
\* The sort is in place: it reorders the array this.filteredAchievements
\* holds, which is this.achievements too when the two fields share it.
SortChange(value) ==
    /\ ListenersSetUp
    /\ value # currentSort
    /\ currentSort' = value
    /\ filteredAchievements' = applySorting(filteredAchievements, value)
    /\ achievements' = IF viewSharesBase THEN filteredAchievements'
                       ELSE achievements
    /\ UNCHANGED << files, phase, viewSharesBase, currentPlatform,
                    searchQuery, includedTags, excludedTags, allTags, tagList,
                    inputValue, searchTimeout, totalAchievementsText,
                    completedGamesText, calcVars, sortVars, cardVars >>

\* window.open(link) for the game the handler found, if it has a link
openGame(card, game) ==
    /\ activatedCard' = card.uid
    /\ activatedGame' = game.uid
    /\ openedLink' = getGameLink(game)

\* handleCardActivation (click, Enter or Space) on the i-th card of the grid
CardActivation(i) ==
    /\ phase = "ready"
    /\ i \in 1..Len(filteredAchievements)
    /\ openGame(filteredAchievements[i],
                findGame(achievements,
                         generateGameId(filteredAchievements[i].name)))
    /\ UNCHANGED << dashVars, calcVars, sortVars >>

Next ==
    \/ LoadAchievements
    \/ \E value \in PlatformOptions : PlatformChange(value)
    \/ \E tag \in Tags : IncludeClick(tag)
    \/ \E tag \in Tags : ExcludeClick(tag)
    \/ \E value \in SearchInputs : SearchInput(value)
    \/ SearchTimeout
    \/ \E value \in SortOptions : SortChange(value)

Spec == Init /\ [][Next]_vars

(***************************************************************************)
(* The search box on its own: two steam games in either order, with or     *)
(* without a gog game, the other handlers interleaved.  A timer that is    *)
(* not cancelled fires after its 150 ms, hence the weak fairness.          *)
(***************************************************************************)
SearchFiles ==
    [steam : {[ok |-> TRUE, games |-> g] :
                 g \in {<< SteamPool[1], SteamPool[2] >>,
                        << SteamPool[2], SteamPool[1] >>}},
     gog : {[ok |-> FALSE, games |-> <<>>],
            [ok |-> TRUE, games |-> << GogPool[1] >>]},
     retroachievements : {[ok |-> FALSE, games |-> <<>>]}]

InitSearch ==
    /\ files \in SearchFiles
    /\ Constructed
    /\ CalcIdle
    /\ SortIdle
    /\ CardIdle

NextSearch ==
    \/ LoadAchievements
    \/ \E value \in SearchInputs : SearchInput(value)
    \/ SearchTimeout
    \/ \E value \in PlatformOptions : PlatformChange(value)
    \/ \E value \in SortOptions : SortChange(value)

SpecSearch == InitSearch /\ [][NextSearch]_vars /\ WF_vars(SearchTimeout)

(***************************************************************************)
(* AchievementProgress.calculate on its own                                *)
(***************************************************************************)
InitCalc ==
    /\ files = NoFiles
    /\ Constructed
    /\ calcArgs \in CalcInputs \X CalcInputs
    /\ calcResult = NoResult
    /\ SortIdle
    /\ CardIdle

\* one call calculate(totalAchievements, earnedAchievements)
Calculate ==
    /\ calcResult = NoResult
    /\ calcResult' = calculate(calcArgs[1], calcArgs[2])
    /\ UNCHANGED << calcArgs, dashVars, sortVars, cardVars >>

NextCalc == Calculate

SpecCalc == InitCalc /\ [][NextCalc]_vars

(***************************************************************************)
(* applySorting on its own, on lists of up to MaxSortLen games             *)
(***************************************************************************)
SortGame(nm, last, total, unlocked, played) ==
    [name |-> nm, lastAchievement |-> last, totalAchievements |-> total,
     unlockedAchievements |-> unlocked, playedTime |-> played]

\* the kinds of games in the lists: half done; without achievements (its
\* completion is NaN); complete
SortKinds ==
    {SortGame(<<"a">>, 1, 2, 1, 1),
     SortGame(<<"b">>, NullDate, 0, 0, AbsentTime),
     SortGame(<<"a">>, 2, 2, 2, 1)}

\* a list of n games; uid is the position in the list
SortLists(n) ==
    {[i \in 1..n |->
         [uid |-> i, name |-> l[i].name,
          lastAchievement |-> l[i].lastAchievement,
          totalAchievements |-> l[i].totalAchievements,
          unlockedAchievements |-> l[i].unlockedAchievements,
          playedTime |-> l[i].playedTime]] : l \in [1..n -> SortKinds]}

InitSort ==
    /\ files = NoFiles
    /\ Constructed
    /\ CalcIdle
    /\ sortInput \in UNION {SortLists(n) : n \in 0..MaxSortLen}
    /\ sortKey = "none"
    /\ sortOutput = <<>>
    /\ CardIdle

\* this.currentSort = value; this.applySorting() on the list
SortAlone(value) ==
    /\ sortKey = "none"
    /\ sortKey' = value
    /\ sortOutput' = applySorting(sortInput, value)
    /\ UNCHANGED << sortInput, dashVars, calcVars, cardVars >>

NextSort == \E value \in SortOptions : SortAlone(value)

SpecSort == InitSort /\ [][NextSort]_vars

(***************************************************************************)
(* loadAchievements and the cards on their own, on data files whose        *)
(* RetroAchievements record has up to MaxSubsets subsets                   *)
(***************************************************************************)
SubsetKeys == << << "7" >>, << "8" >>, BaseKey >>

\* the j-th smallest element of a set of numbers
NthOf(K, j) == CHOOSE k \in K : Cardinality({m \in K : m < k}) = j - 1

\* the entries Object.entries yields for a subsets object with the keys of K
\* (integer-like keys ascending, then 'Base'), named by names
SubsetList(K, names) ==
    [j \in 1..Cardinality(K) |->
        [NoSubset EXCEPT !.key = SubsetKeys[NthOf(K, j)],
                         !.name = names[NthOf(K, j)],
                         !.totalAchievements = 2,
                         !.unlockedAchievements = 1]]

SubsetLists ==
    {SubsetList(K, names) :
        K \in {S \in SUBSET (1..3) : Cardinality(S) <= MaxSubsets},
        names \in [1..3 -> {<<>>, << "a" >>}]}

\* a record with a subsets object, with or without a name of its own
SubsetRecords ==
    {[RetroPool[2] EXCEPT !.name = nm, !.subsets = ss] :
        nm \in {<<>>, << "B" >>}, ss \in SubsetLists}

LoadFetches(platform) ==
    {[ok |-> FALSE, games |-> <<>>]}
        \cup {[ok |-> TRUE, games |-> g] :
                g \in CASE platform = "steam" ->
                             {<<>>, << SteamPool[1] >>,
                              << [SteamPool[2] EXCEPT !.platformId = <<>>] >>}
                        [] platform = "gog" ->
                             {<< GogPool[2] >>,
                              << [GogPool[1] EXCEPT !.platformId = <<>>] >>}
                        [] platform = "retroachievements" ->
                             {<<>>, << RetroPool[1] >>}
                                 \cup {<< r >> : r \in SubsetRecords}}

LoadFiles ==
    [steam : LoadFetches("steam"), gog : LoadFetches("gog"),
     retroachievements : LoadFetches("retroachievements")]

InitLoad ==
    /\ files \in LoadFiles
    /\ Constructed
    /\ CalcIdle
    /\ SortIdle
    /\ CardIdle

NextLoad ==
    \/ LoadAchievements
    \/ \E i \in 1..(MaxSubsets + 2) : CardActivation(i)

SpecLoad == InitLoad /\ [][NextLoad]_vars

(***************************************************************************)
(* js/main.js: the variant of loadAchievements whose catch loads sample    *)
(* data.  Its records carry the date as dateCompleted, which is the        *)
(* lastAchievement field here, and it does not expand subsets.             *)
(***************************************************************************)
SampleGame(uid, id, nm, platform, pid, total, unlocked, date, played, cover, tg) ==
    [uid |-> uid, id |-> id, name |-> nm, platform |-> platform,
     platformId |-> pid, parentId |-> <<>>, isSubset |-> FALSE,
     subsetId |-> <<>>, totalAchievements |-> total,
     unlockedAchievements |-> unlocked, lastAchievement |-> date,
     playedTime |-> played, coverImage |-> cover, tags |-> tg,
     isCompleted |-> date # NullDate,
     lastPlayed |-> IF date # NullDate THEN date ELSE 3]

CyberpunkName ==
    << "C", "y", "b", "e", "r", "p", "u", "n", "k", " ", "2", "0", "7", "7" >>

WitcherName ==
    << "T", "h", "e", " ", "W", "i", "t", "c", "h", "e", "r", " ", "3", ":",
       " ", "W", "i", "l", "d", " ", "H", "u", "n", "t" >>

MarioName ==
    << "S", "u", "p", "e", "r", " ", "M", "a", "r", "i", "o", " ", "W", "o",
       "r", "l", "d" >>

HollowKnightName ==
    << "H", "o", "l", "l", "o", "w", " ", "K", "n", "i", "g", "h", "t" >>

StardewName ==
    << "S", "t", "a", "r", "d", "e", "w", " ", "V", "a", "l", "l", "e", "y" >>

\* the array loadSampleData assigns; the months 2021-08, 2024-02, 2024-03
\* are the dates 1, 2, 3
SampleData ==
    << SampleGame(1, << "cyberpunk-2077" >>, CyberpunkName, "steam",
                  << "1091500" >>, 44, 44, 2, 85, << "steam cover" >>,
                  << "One", "Another", "One Really Long Tag" >>),
       SampleGame(2, << "witcher-3" >>, WitcherName, "gog",
                  << "the_witcher_3_wild_hunt" >>, 78, 78, 1, 150,
                  << "gog cover" >>, <<>>),
       SampleGame(3, << "super-mario-world" >>, MarioName,
                  "retroachievements", << "228" >>, 51, 51, 3, 12, <<>>, <<>>),
       SampleGame(4, << "hollow-knight" >>, HollowKnightName, "steam",
                  << "367520" >>, 63, 45, NullDate, 28, << "steam cover" >>,
                  <<>>),
       SampleGame(5, << "stardew-valley" >>, StardewName, "steam",
                  << "413150" >>, 40, 23, NullDate, 52, << "steam cover" >>,
                  <<>>) >>

\* platformGames.forEach(game => allGames.push({ ...game, platform }))
platformEntriesMain(f, platform) ==
    IF f[platform].ok
    THEN [i \in 1..Len(f[platform].games) |->
             plainEntry(f[platform].games[i], platform)]
    ELSE <<>>

collectAllGamesMain(f) ==
    platformEntriesMain(f, "steam") \o platformEntriesMain(f, "gog")
        \o platformEntriesMain(f, "retroachievements")

\* updateStats of js/main.js: over this.achievements, a game counting as
\* completed when it has a dateCompleted
updateStatsMain ==
    /\ totalAchievementsText' = sumUnlocked(achievements')
    /\ completedGamesText' =
           Cardinality({i \in 1..Len(achievements') :
                           achievements'[i].lastAchievement > 0})

\* the callback of this.achievements.filter in js/main.js
passesFiltersMain(game, platform, selectedTags, query) ==
    IF platform # "all" /\ game.platform # platform THEN FALSE
    ELSE IF selectedTags # {} /\ ~hasTagIn(game, selectedTags) THEN FALSE
    ELSE IF query # <<>>
            /\ ~includes(toLowerCase(game.name), toLowerCase(query)) THEN FALSE
    ELSE TRUE

\* applySorting of js/main.js knows 'name' and 'completion'; every other
\* key is 'recent'
applySortingMain(games, sortBy) ==
    ArraySort(games, IF sortBy \in {"name", "completion"} THEN sortBy
                     ELSE "recent")

\* applyFilters of js/main.js; this.selectedTags is includedTags
applyFiltersMain(platform) ==
    /\ filteredAchievements' =
           applySortingMain(
               SelectSeq(achievements,
                         LAMBDA game : passesFiltersMain(game, platform,
                                                         includedTags,
                                                         searchQuery)),
               currentSort)
    /\ viewSharesBase' = FALSE
    /\ updateStatsMain

\* init() of js/main.js: loadAchievements catches its own 'No games data
\* found' and calls loadSampleData, then returns; init goes on with
\* setupEventListeners, updateStats and renderAchievements.
LoadAchievementsMain ==
    /\ phase = "loading"
    /\ phase' = "ready"
    /\ IF collectAllGamesMain(files) = <<>>
       THEN /\ achievements' = SampleData
            /\ filteredAchievements' = achievements'
            /\ allTags' = allTags
            /\ tagList' = tagList
            /\ viewSharesBase' = FALSE
       ELSE /\ achievements' = ArraySort(mapGames(collectAllGamesMain(files)),
                                         "load")
            /\ filteredAchievements' = achievements'
            /\ viewSharesBase' = FALSE
            /\ allTags' = extractAllTags(achievements')
            /\ tagList' = renderTagFilters(allTags')
    /\ updateStatsMain
    /\ UNCHANGED << files, currentPlatform, currentSort, searchQuery,
                    includedTags, excludedTags, inputValue, searchTimeout,
                    calcVars, sortVars, cardVars >>

\* change event on #platform-select in js/main.js
PlatformChangeMain(value) ==
    /\ phase = "ready"
    /\ value # currentPlatform
    /\ currentPlatform' = value
    /\ achievements' = achievements
    /\ applyFiltersMain(value)
    /\ UNCHANGED << files, phase, currentSort, searchQuery, includedTags,
                    excludedTags, allTags, tagList, inputValue, searchTimeout,
                    calcVars, sortVars, cardVars >>

NextMain ==
    \/ LoadAchievementsMain
    \/ \E value \in PlatformOptions : PlatformChangeMain(value)

SpecMain == Init /\ [][NextMain]_vars



(***************************************************************************)
(* Properties of AchievementProgress.calculate (SpecCalc)                  *)
(***************************************************************************)
Called == calcResult # NoResult

\* the numeric value of an argument that is a non-negative integer
IsCount(arg) == arg.k = "int" /\ arg.n >= 0

\* C9: for all total, earned >= 0 the percentage calculate returns is an
\* integer in [0, 100], and a descriptor that is complete has percentage 100.
C9_PercentageInRange ==
    Called =>
        /\ calcResult.percentage \in 0..100
        /\ calcResult.isComplete => calcResult.percentage = 100

\* a call with earned above a positive total: the cap is what keeps the
\* percentage at 100
C9_Witness ==
    /\ Called
    /\ IsCount(calcArgs[1]) /\ IsCount(calcArgs[2])
    /\ calcArgs[1].n > 0
    /\ calcArgs[2].n > calcArgs[1].n
    /\ calcResult.isComplete
    /\ calcResult.percentage = 100

\* C10: the earned count calculate returns is min(earned, total) of the
\* sanitized arguments, and isComplete holds exactly when the sanitized total
\* is > 0 and earned >= total; calculate(T, T) and calculate(T, T + 5) are
\* complete with earned = T for T > 0, and calculate(0, x) is never complete.
C10_CappedEarnedAndComplete ==
    Called =>
        LET total == sanitizeNumber(calcArgs[1])
            earned == sanitizeNumber(calcArgs[2])
        IN  /\ calcResult.earned = (IF earned <= total THEN earned ELSE total)
            /\ calcResult.isComplete <=> (total > 0 /\ earned >= total)
            /\ (/\ IsCount(calcArgs[1]) /\ IsCount(calcArgs[2])
                /\ calcArgs[1].n > 0
                /\ calcArgs[2].n \in {calcArgs[1].n, calcArgs[1].n + 5})
                   => (calcResult.isComplete
                          /\ calcResult.earned = calcArgs[1].n)
            /\ (IsCount(calcArgs[1]) /\ calcArgs[1].n = 0)
                   => ~calcResult.isComplete

\* the call calculate(T, T + 5) with T > 0
C10_Witness ==
    /\ Called
    /\ IsCount(calcArgs[1]) /\ IsCount(calcArgs[2])
    /\ calcArgs[1].n > 0
    /\ calcArgs[2].n = calcArgs[1].n + 5
    /\ calcResult.earned = calcArgs[1].n
    /\ calcResult.isComplete

\* C11: the status is decided in this order: sanitized total 0 gives 'No
\* Achievements'; else complete (earned >= total) gives 'Complete'; else
\* percentage 0 gives 'Not Started'; percentage < 25 'Started'; percentage
\* < 75 'In Progress'; anything else 'Almost There'; calculate(50, 49) has
\* percentage 98 and is 'Almost There'.
C11_StatusPrecedence ==
    Called =>
        LET total == sanitizeNumber(calcArgs[1])
            earned == sanitizeNumber(calcArgs[2])
        IN  /\ calcResult.status =
                   (IF total = 0 THEN "No Achievements"
                    ELSE IF earned >= total THEN "Complete"
                    ELSE IF calcResult.percentage = 0 THEN "Not Started"
                    ELSE IF calcResult.percentage < 25 THEN "Started"
                    ELSE IF calcResult.percentage < 75 THEN "In Progress"
                    ELSE "Almost There")
            /\ calcArgs = << [k |-> "int", n |-> 50], [k |-> "int", n |-> 49] >>
                   => (calcResult.percentage = 98
                          /\ calcResult.status = "Almost There")

\* the call calculate(50, 49)
C11_Witness ==
    /\ Called
    /\ calcArgs = << [k |-> "int", n |-> 50], [k |-> "int", n |-> 49] >>
    /\ calcResult.percentage = 98
    /\ calcResult.status = "Almost There"


\* C28: calculate reports the percentage 100 only for complete records: for
\* total > 0 and earned >= 0, percentage = 100 implies isComplete and the
\* status 'Complete'.
C28_FullPercentageOnlyWhenComplete ==
    (Called /\ IsCount(calcArgs[1]) /\ IsCount(calcArgs[2])
        /\ calcArgs[1].n > 0) =>
        (calcResult.percentage = 100 =>
             calcResult.isComplete /\ calcResult.status = "Complete")

(***************************************************************************)
(* Properties of the filter / sort engine (Spec)                           *)
(***************************************************************************)
Loaded == phase = "ready"

TagSet(game) == {game.tags[j] : j \in 1..Len(game.tags)}

\* the four constraints of the filter, for the criteria given
PassesCriteria(game, platform, included, excluded, query) ==
    /\ platform = "all" \/ game.platform = platform
    /\ included = {} \/ TagSet(game) \cap included # {}
    /\ excluded = {} \/ TagSet(game) \cap excluded = {}
    /\ query = <<>> \/ includes(toLowerCase(game.name), toLowerCase(query))

PassesNow(game) ==
    PassesCriteria(game, currentPlatform, includedTags, excludedTags,
                   searchQuery)

InList(list, game) == \E i \in 1..Len(list) : list[i] = game

PositionIn(list, game) == CHOOSE i \in 1..Len(list) : list[i] = game

\* C1: the view holds exactly the games of the base list that pass the
\* platform, include, exclude and search constraints together; none is
\* missing, none that fails is present, none appears twice.
C1_ViewIsExactlyThePassingGames ==
    /\ \A i \in 1..Len(filteredAchievements) :
           /\ InList(achievements, filteredAchievements[i])
           /\ PassesNow(filteredAchievements[i])
    /\ \A k \in 1..Len(achievements) :
           PassesNow(achievements[k])
               => InList(filteredAchievements, achievements[k])
    /\ \A i, j \in 1..Len(filteredAchievements) :
           i # j => filteredAchievements[i].uid # filteredAchievements[j].uid

\* all four constraints are active, one game passes and another is dropped,
\* with a query that matches only when case is ignored
C1_Witness ==
    /\ Loaded
    /\ currentPlatform # "all"
    /\ includedTags # {}
    /\ excludedTags # {}
    /\ searchQuery # <<>>
    /\ filteredAchievements # <<>>
    /\ Len(filteredAchievements) < Len(achievements)
    /\ \E i \in 1..Len(filteredAchievements) :
           ~includes(filteredAchievements[i].name, searchQuery)

\* the base list filtered under the criteria given, in base order
FilteredBase(base, platform, included, excluded, query) ==
    LET keep(game) == PassesCriteria(game, platform, included, excluded, query)
    IN  SelectSeq(base, keep)

IsArrangementOf(out, in) ==
    /\ Len(out) = Len(in)
    /\ \A i \in 1..Len(in) : InList(out, in[i])

\* the comparator of the key yields a number for every pair of the list
ComparatorDefinedOn(list, key) ==
    \A i, j \in 1..Len(list) : sortComparator(key, list[i], list[j]) # NaN

\* out is in arranged by the comparator of key, ties in their order in in
IsStableSortOf(out, in, key) ==
    /\ IsArrangementOf(out, in)
    /\ \A i, j \in 1..Len(out) :
           i < j =>
               LET c == sortComparator(key, out[i], out[j])
               IN  \/ c < 0
                   \/ c = 0 /\ PositionIn(in, out[i]) < PositionIn(in, out[j])

criteria == << currentPlatform, includedTags, excludedTags, searchQuery >>

FilterAndSort(games, key) ==
    applySorting(
        filterGames(games, currentPlatform, includedTags, excludedTags,
                    searchQuery),
        key)

\* C3: filter + sort is idempotent: applied to its own result under the same
\* criteria it returns the same sequence, for each of the four sort keys.
C3_FilterSortIdempotent ==
    \A key \in SortOptions :
        FilterAndSort(FilterAndSort(achievements, key), key)
            = FilterAndSort(achievements, key)

\* the filter drops a game and the completion sort reorders the rest
C3_Witness ==
    /\ Loaded
    /\ currentSort = "completion"
    /\ Len(filteredAchievements) >= 2
    /\ Len(filteredAchievements) < Len(achievements)
    /\ filteredAchievements = FilterAndSort(achievements, "completion")
    /\ filteredAchievements #
           filterGames(achievements, currentPlatform, includedTags,
                       excludedTags, searchQuery)

\* C4: no tag is ever in both includedTags and excludedTags; a click that
\* adds a tag to one set removes it from the other, and a click on an active
\* button removes the tag from its own set and leaves the other set alone.
C4_TagSetsDisjoint ==
    [][/\ includedTags' \cap excludedTags' = {}
       /\ \A tag \in Tags :
              /\ (tag \notin includedTags /\ tag \in includedTags')
                     => /\ includedTags' = includedTags \cup {tag}
                        /\ excludedTags' = excludedTags \ {tag}
              /\ (tag \notin excludedTags /\ tag \in excludedTags')
                     => /\ excludedTags' = excludedTags \cup {tag}
                        /\ includedTags' = includedTags \ {tag}
              /\ (tag \in includedTags /\ tag \notin includedTags'
                      /\ tag \notin excludedTags')
                     => /\ includedTags' = includedTags \ {tag}
                        /\ excludedTags' = excludedTags
              /\ (tag \in excludedTags /\ tag \notin excludedTags'
                      /\ tag \notin includedTags')
                     => /\ excludedTags' = excludedTags \ {tag}
                        /\ includedTags' = includedTags]_vars

\* one tag is included while another is excluded
C4_Witness ==
    /\ Loaded
    /\ includedTags # {}
    /\ excludedTags # {}
    /\ includedTags \cup excludedTags = Tags

\* C5: whenever excludedTags is non-empty no game of the view carries an
\* excluded tag, also when it carries an included one; a game without tags
\* passes the exclude constraint and fails a non-empty include constraint.
C5_ExcludeCheckedIndependently ==
    /\ \A i \in 1..Len(filteredAchievements) :
           TagSet(filteredAchievements[i]) \cap excludedTags = {}
    /\ \A k \in 1..Len(achievements) :
           TagSet(achievements[k]) = {} =>
               IF includedTags # {}
               THEN ~InList(filteredAchievements, achievements[k])
               ELSE PassesCriteria(achievements[k], currentPlatform, {}, {},
                                   searchQuery)
                        => InList(filteredAchievements, achievements[k])

\* a game with an included and an excluded tag is kept out of the view,
\* which still shows another game
C5_Witness ==
    /\ Loaded
    /\ includedTags # {}
    /\ excludedTags # {}
    /\ filteredAchievements # <<>>
    /\ \E k \in 1..Len(achievements) :
           /\ TagSet(achievements[k]) \cap includedTags # {}
           /\ TagSet(achievements[k]) \cap excludedTags # {}
           /\ ~InList(filteredAchievements, achievements[k])

Dated(game) == game.lastAchievement > 0

\* C6: under the 'recent' sort every game with a lastAchievement date comes
\* before every game without one, whatever the names, and of two dated games
\* the one with the later date comes first.
C6_RecentDatedFirstNewestFirst ==
    currentSort = "recent" =>
        \A i, j \in 1..Len(filteredAchievements) :
            i < j =>
                /\ Dated(filteredAchievements[j])
                       => Dated(filteredAchievements[i])
                /\ (Dated(filteredAchievements[i])
                        /\ Dated(filteredAchievements[j]))
                       => filteredAchievements[i].lastAchievement
                              >= filteredAchievements[j].lastAchievement

\* a filter event has sorted the view under 'recent': a dated game precedes
\* an undated game whose name sorts first, and two dates differ
C6_Witness ==
    /\ Loaded
    /\ currentSort = "recent"
    /\ currentPlatform # "all"
    /\ \E i, j \in 1..Len(filteredAchievements) :
           /\ i < j
           /\ Dated(filteredAchievements[i])
           /\ ~Dated(filteredAchievements[j])
           /\ localeCompare(filteredAchievements[i].name,
                            filteredAchievements[j].name) > 0
    /\ \E i, j \in 1..Len(filteredAchievements) :
           /\ Dated(filteredAchievements[i])
           /\ Dated(filteredAchievements[j])
           /\ filteredAchievements[i].lastAchievement
                  > filteredAchievements[j].lastAchievement

SameDate(a, b) ==
    Dated(a) /\ Dated(b) /\ a.lastAchievement = b.lastAchievement

\* C7 as stated: under the 'recent' ordering (the base list as loaded, and the
\* view under the 'recent' sort) two games with equal dates, and two games
\* both without a date, are in ascending order of their names.
C7_RecentTiesOrderedByName ==
    /\ \A i, j \in 1..Len(achievements) :
           (/\ i < j
            /\ \/ SameDate(achievements[i], achievements[j])
               \/ ~Dated(achievements[i]) /\ ~Dated(achievements[j]))
               => localeCompare(achievements[i].name, achievements[j].name)
                      <= 0
    /\ currentSort = "recent" =>
           \A i, j \in 1..Len(filteredAchievements) :
               (/\ i < j
                /\ \/ SameDate(filteredAchievements[i],
                               filteredAchievements[j])
                   \/ /\ ~Dated(filteredAchievements[i])
                      /\ ~Dated(filteredAchievements[j]))
                   => localeCompare(filteredAchievements[i].name,
                                    filteredAchievements[j].name) <= 0

\* C7 amended: under the 'recent' ordering two games both without a date are
\* in ascending order of their names; two games with equal dates compare
\* equal and keep the order of the list that was sorted (the order in which
\* the loader collected them, for the base list).
C7_RecentNameOnlyWithoutDates ==
    [][LET sorted ==
               IF currentSort' # currentSort
               THEN filteredAchievements
               ELSE FilteredBase(achievements', currentPlatform',
                                 includedTags', excludedTags', searchQuery')
           resorted ==
               \/ currentSort' # currentSort
               \/ criteria' # criteria
               \/ filteredAchievements' # filteredAchievements
       IN  /\ \A i, j \in 1..Len(achievements') :
                  i < j =>
                      /\ (~Dated(achievements'[i]) /\ ~Dated(achievements'[j]))
                             => localeCompare(achievements'[i].name,
                                              achievements'[j].name) <= 0
                      /\ SameDate(achievements'[i], achievements'[j])
                             => achievements'[i].uid < achievements'[j].uid
           /\ currentSort' = "recent" =>
                  \A i, j \in 1..Len(filteredAchievements') :
                      i < j =>
                          /\ (/\ ~Dated(filteredAchievements'[i])
                              /\ ~Dated(filteredAchievements'[j]))
                                 => localeCompare(
                                        filteredAchievements'[i].name,
                                        filteredAchievements'[j].name) <= 0
                          /\ (/\ resorted
                              /\ SameDate(filteredAchievements'[i],
                                          filteredAchievements'[j]))
                                 => PositionIn(sorted,
                                               filteredAchievements'[i])
                                        < PositionIn(sorted,
                                                     filteredAchievements'[j])
      ]_vars

\* a filter event has sorted the view under 'recent', and two games with the
\* same date are not in the order of their names
C7_Witness ==
    /\ Loaded
    /\ currentSort = "recent"
    /\ currentPlatform # "all"
    /\ \E i, j \in 1..Len(filteredAchievements) :
           /\ i < j
           /\ SameDate(filteredAchievements[i], filteredAchievements[j])
           /\ localeCompare(filteredAchievements[i].name,
                            filteredAchievements[j].name) > 0

(***************************************************************************)
(* Properties of applySorting on its own (SpecSort)                        *)
(***************************************************************************)
Sorted == sortKey # "none"

\* C8: the sort is stable: two games that compare equal under the active key
\* keep their relative order from the input list (so under 'recent' two games
\* with equal dates keep it), and sorting by 'name' a second time changes
\* nothing.
C8_SortIsStable ==
    Sorted =>
        /\ \A i, j \in 1..Len(sortInput) :
               (i < j /\ sortComparator(sortKey, sortInput[i], sortInput[j]) = 0)
                   => PositionIn(sortOutput, sortInput[i])
                          < PositionIn(sortOutput, sortInput[j])
        /\ sortKey = "name" => applySorting(sortOutput, "name") = sortOutput

\* the completion ratio of a beats that of b, a game without achievements
\* having the ratio 0
HigherRatio(a, b) ==
    /\ a.totalAchievements > 0
    /\ IF b.totalAchievements = 0 THEN a.unlockedAchievements > 0
       ELSE a.unlockedAchievements * b.totalAchievements
                > b.unlockedAchievements * a.totalAchievements

\* C20: under the 'completion' sort a game with totalAchievements = 0 is
\* compared with the ratio 0: the comparator never yields NaN, such a game
\* never precedes a game with a positive ratio, and of two games with
\* different ratios the one with the higher ratio comes first wherever the
\* two stood in the input list.
C20_ZeroTotalComparesAsRatioZero ==
    (Sorted /\ sortKey = "completion") =>
        /\ \A i, j \in 1..Len(sortInput) :
               completionCompare(sortInput[i], sortInput[j]) # NaN
        /\ \A p, q \in 1..Len(sortOutput) :
               HigherRatio(sortOutput[q], sortOutput[p]) => q < p


(***************************************************************************)
(* Properties of loadAchievements and getGameLink (SpecLoad)               *)
(***************************************************************************)
\* the records of retroachievements.json that carry a subsets mapping
SubsetParents ==
    {files.retroachievements.games[n] :
        n \in {m \in 1..Len(files.retroachievements.games) :
                  files.retroachievements.games[m].hasSubsets}}

SubsetKeysOf(r) == {r.subsets[j].key : j \in 1..Len(r.subsets)}

\* positions of the entries of the base list that stand for r or for one of
\* its subsets
DerivedFrom(r) ==
    {i \in 1..Len(achievements) :
        /\ achievements[i].platform = "retroachievements"
        /\ \/ achievements[i].platformId = r.platformId
           \/ achievements[i].platformId \in SubsetKeysOf(r)}

\* C12: a RetroAchievements record with a subsets mapping of n entries is
\* expanded into exactly n entries, the parent itself is no entry of its own,
\* and the entry of a non-Base key k has id k, isSubset true, the parent's
\* platformId as parentId and, when parent and subset both have a name, the
\* name '<parent name>: <subset name>'.
C12_SubsetsReplaceTheParent ==
    Loaded =>
        \A r \in SubsetParents :
            /\ Cardinality(DerivedFrom(r)) = Len(r.subsets)
            /\ \A j \in 1..Len(r.subsets) :
                   r.subsets[j].key # BaseKey =>
                       \E i \in DerivedFrom(r) :
                           /\ achievements[i].platformId = r.subsets[j].key
                           /\ achievements[i].isSubset
                           /\ achievements[i].parentId = r.platformId
                           /\ (r.name # <<>> /\ r.subsets[j].name # <<>>)
                                  => achievements[i].name
                                         = r.name \o << ":", " " >>
                                               \o r.subsets[j].name

\* a named record with two subsets, one of them a named non-Base subset, has
\* been loaded
C12_Witness ==
    /\ Loaded
    /\ \E r \in SubsetParents :
           /\ Len(r.subsets) = 2
           /\ r.name = << "B" >>
           /\ \E i \in DerivedFrom(r) :
                  /\ achievements[i].platformId = << "7" >>
                  /\ achievements[i].name = << "B", ":", " ", "a" >>

\* the name shown for an entry whose name is absent
FallbackName(id) == UnknownGame \o id \o << ")" >>

\* r has an entry under the key 'Base'
HasBase(r) == BaseKey \in SubsetKeysOf(r)

\* positions of the entry that stands for the 'Base' subset of r
BaseEntries(r) == {i \in DerivedFrom(r) : achievements[i].platformId = r.platformId}

\* what C13 says of the entry at position i, but for its parentId
IsBaseEntryOf(i, r) ==
    /\ achievements[i].platformId = r.platformId
    /\ ~achievements[i].isSubset
    /\ achievements[i].subsetId = <<>>
    /\ achievements[i].name
           = (IF r.name # <<>> THEN r.name ELSE FallbackName(r.platformId))

\* C13 as stated: the entry of the key 'Base' has the parent's platformId as
\* its id, isSubset = false, parentId = null and the parent's name; parentId
\* is present only on non-Base subset entries.
C13_BaseEntryHasNoParentId ==
    Loaded =>
        /\ \A r \in SubsetParents :
               HasBase(r) =>
                   (BaseEntries(r) # {}
                       /\ \A i \in BaseEntries(r) :
                              IsBaseEntryOf(i, r)
                                  /\ achievements[i].parentId = <<>>)
        /\ \A i \in 1..Len(achievements) :
               achievements[i].parentId # <<>> => achievements[i].isSubset

\* C13 amended: the entry of the key 'Base' has the parent's platformId as
\* its id and as its parentId, isSubset = false, no subsetId and the parent's
\* name; parentId is absent only on the entries of records without subsets.
C13_BaseEntryKeepsParentId ==
    Loaded =>
        /\ \A r \in SubsetParents :
               HasBase(r) =>
                   (BaseEntries(r) # {}
                       /\ \A i \in BaseEntries(r) :
                              IsBaseEntryOf(i, r)
                                  /\ achievements[i].parentId = r.platformId)
        /\ \A i \in 1..Len(achievements) :
               achievements[i].parentId = <<>>
                   <=> (\A r \in SubsetParents : i \notin DerivedFrom(r))

\* a record with a 'Base' subset and another one has been loaded
C13_Witness ==
    /\ Loaded
    /\ \E r \in SubsetParents :
           /\ HasBase(r)
           /\ Len(r.subsets) = 2
           /\ \E i \in BaseEntries(r) :
                  /\ ~achievements[i].isSubset
                  /\ achievements[i].parentId = r.platformId

\* C14: the name of a non-Base subset entry is 'parent.name: subset.name'
\* when both names are present, otherwise whichever of the two is present,
\* and 'Unknown Game (<id>)' only when neither is.
C14_SubsetNameFallsBackToEitherName ==
    Loaded =>
        \A r \in SubsetParents :
            \A j \in 1..Len(r.subsets) :
                r.subsets[j].key # BaseKey =>
                    \A i \in DerivedFrom(r) :
                        achievements[i].platformId = r.subsets[j].key =>
                            achievements[i].name =
                                (IF r.name # <<>> /\ r.subsets[j].name # <<>>
                                 THEN r.name \o << ":", " " >>
                                          \o r.subsets[j].name
                                 ELSE IF r.name # <<>> THEN r.name
                                 ELSE IF r.subsets[j].name # <<>>
                                      THEN r.subsets[j].name
                                 ELSE FallbackName(r.subsets[j].key))

(***************************************************************************)
(* Properties of the load as a whole (Spec)                                *)
(***************************************************************************)
PlatformNames == {"steam", "gog", "retroachievements"}

LoadDone == phase # "loading"

\* the ids the entries of the raw record rec of platform p are loaded under
EntryIds(rec, p) ==
    IF p = "retroachievements" /\ rec.hasSubsets
    THEN {IF rec.subsets[j].key = BaseKey THEN rec.platformId
          ELSE rec.subsets[j].key : j \in 1..Len(rec.subsets)}
    ELSE {rec.platformId}

\* the entries read from the files whose fetch succeeded, as (platform, id)
LoadedIds ==
    UNION {UNION {{<< p, id >> : id \in EntryIds(files[p].games[n], p)} :
                     n \in 1..Len(files[p].games)} :
              p \in {q \in PlatformNames : files[q].ok}}

C19_InitialOrderIsTheRecentOrder ==
    [][(phase = "loading" /\ phase' = "ready") =>
           /\ currentSort' = "recent"
           /\ filteredAchievements' = achievements'
           /\ applySorting(achievements', "recent") = achievements'
           /\ \A i, j \in 1..Len(achievements') :
                  loadCompare(achievements'[i], achievements'[j])
                      = recentCompare(achievements'[i], achievements'[j])]_vars

\* the load has reordered the records it read, and no event has come yet
C19_Witness ==
    /\ Loaded
    /\ currentSort = "recent"
    /\ filteredAchievements = achievements
    /\ \E i, j \in 1..Len(achievements) :
           i < j /\ achievements[i].uid > achievements[j].uid

\* the three platforms together yield no record
NoRecords == \A p \in PlatformNames : files[p].games = <<>>

\* C16: when the three platforms together yield zero records the loader
\* fails: the error reaches the caller of loadAchievements, no substitute
\* (sample) data takes the place of the game list, and the base list and the
\* view stay empty.
C16_ZeroRecordsFailTheLoad ==
    (LoadDone /\ NoRecords) =>
        /\ phase = "failed"
        /\ achievements = <<>>
        /\ filteredAchievements = <<>>

\* the sum of unlockedAchievements over the first n games of a list
RECURSIVE UnlockedUpTo(_, _)
UnlockedUpTo(list, n) ==
    IF n = 0 THEN 0
    ELSE list[n].unlockedAchievements + UnlockedUpTo(list, n - 1)

\* C17: after a successful load and any sequence of filter, search and sort
\* events the counters are those of the view, not of the full dataset:
\* totalUnlocked is the sum of unlockedAchievements over the view, and
\* fullyCompletedCount the number of games of the view with totalAchievements
\* > 0 and unlockedAchievements = totalAchievements.
C17_StatsAreThoseOfTheView ==
    Loaded =>
        /\ totalAchievementsText
               = UnlockedUpTo(filteredAchievements, Len(filteredAchievements))
        /\ completedGamesText
               = Cardinality(
                     {i \in 1..Len(filteredAchievements) :
                         /\ filteredAchievements[i].totalAchievements > 0
                         /\ filteredAchievements[i].unlockedAchievements
                                = filteredAchievements[i].totalAchievements})

(***************************************************************************)
(* Properties of getGameLink (SpecLoad)                                    *)
(***************************************************************************)
\* the record the last activation handed to getGameLink
ActivatedRecord ==
    achievements[CHOOSE i \in 1..Len(achievements) :
                     achievements[i].uid = activatedGame]

\* the raw retro record an entry was expanded from under a non-Base key
IsNonBaseSubsetEntry(game) ==
    /\ game.platform = "retroachievements"
    /\ \E r \in SubsetParents :
           /\ game.platformId \in SubsetKeysOf(r) \ {BaseKey}
           /\ game.parentId = r.platformId

\* the link C18 gives a record that has an id
ExpectedLink(game) ==
    CASE game.platform = "steam" ->
             << "https://steamcommunity.com/stats/" >> \o game.platformId
                 \o << "/achievements" >>
      [] game.platform = "gog" ->
             << "https://www.gog.com/game/" >> \o game.platformId
      [] game.platform = "retroachievements" ->
             << "https://retroachievements.org/game/" >>
                 \o (IF game.parentId # <<>> THEN game.parentId
                     ELSE game.platformId)
                 \o (IF IsNonBaseSubsetEntry(game)
                     THEN << "?set=" >> \o game.platformId
                     ELSE <<>>)

\* C18: the link of a record is a function of its fields: steam gives
\* steamcommunity.com/stats/<id>/achievements, gog gives gog.com/game/<id>,
\* retroachievements gives retroachievements.org/game/<parentId, or the own
\* id without a parent>, with '?set=<subset key>' appended exactly when the
\* record is a non-Base subset; a record without an id has no link.
C18_LinkFollowsTheTemplates ==
    activatedGame # NoGame =>
        openedLink = (IF ActivatedRecord.platformId = <<>> THEN <<>>
                      ELSE ExpectedLink(ActivatedRecord))

\* the card of a non-Base subset has been activated
C18_Witness ==
    /\ activatedGame # NoGame
    /\ IsNonBaseSubsetEntry(ActivatedRecord)
    /\ openedLink
           = << "https://retroachievements.org/game/", "2", "?set=", "7" >>

(***************************************************************************)
(* Properties of the subset entries (Spec)                                 *)
(***************************************************************************)
\* the id the entry of the subset sub of the record r is loaded under
EntryIdOf(r, sub) == IF sub.key = BaseKey THEN r.platformId ELSE sub.key

\* C21: on every subset entry lastAchievement and playedTime are the subset's
\* own value whenever the subset carries the field, whatever the value (null
\* or 0 included), and the parent's value only when the subset does not carry
\* it; totalAchievements, unlockedAchievements and coverImage come from the
\* subset (the parent's cover is never used).
C21_SubsetFieldsWinWhenPresent ==
    Loaded =>
        \A r \in SubsetParents :
            \A j \in 1..Len(r.subsets) :
                \A i \in DerivedFrom(r) :
                    achievements[i].platformId = EntryIdOf(r, r.subsets[j]) =>
                        /\ achievements[i].lastAchievement
                               = (IF r.subsets[j].lastAchievement # AbsentDate
                                  THEN r.subsets[j].lastAchievement
                                  ELSE r.lastAchievement)
                        /\ achievements[i].playedTime
                               = (IF r.subsets[j].playedTime # AbsentTime
                                  THEN r.subsets[j].playedTime
                                  ELSE r.playedTime)
                        /\ achievements[i].totalAchievements
                               = r.subsets[j].totalAchievements
                        /\ achievements[i].unlockedAchievements
                               = r.subsets[j].unlockedAchievements
                        /\ achievements[i].coverImage
                               = (IF r.subsets[j].coverImage # <<>>
                                  THEN r.subsets[j].coverImage
                                  ELSE generateCoverImagePath(achievements[i]))

(***************************************************************************)
(* Properties of the normalization map (SpecLoad)                          *)
(***************************************************************************)
\* 'assets/covers/<platform>/<id>.jpg'
CoverPath(platform, id) == << "assets/covers/", platform, "/" >> \o id \o << ".jpg" >>

\* positions of the entries of platform p loaded under the id
EntriesOf(p, id) ==
    {i \in 1..Len(achievements) :
        achievements[i].platform = p /\ achievements[i].platformId = id}

\* what C22 says of the entries loaded from a source (a record or a subset)
\* of platform p that has the effective id, given whether the source has a
\* name and the cover it carries
Normalized(p, id, nameAbsent, cover) ==
    id # <<>> =>
        \A i \in EntriesOf(p, id) :
            /\ nameAbsent => achievements[i].name = FallbackName(id)
            /\ cover = <<>> => achievements[i].coverImage = CoverPath(p, id)

\* C22: every record of the base list has a non-empty name and a cover path:
\* a record without a name (for a subset: neither the subset nor, where it
\* counts, the parent has one) is named 'Unknown Game (<id>)' and a record
\* without a cover gets 'assets/covers/<platform>/<id>.jpg', the id being the
\* subset key for a non-Base subset and the platformId otherwise.
C22_NameAndCoverAlwaysPresent ==
    Loaded =>
        /\ \A i \in 1..Len(achievements) :
               achievements[i].name # <<>> /\ achievements[i].coverImage # <<>>
        /\ \A p \in {q \in PlatformNames : files[q].ok} :
               \A n \in 1..Len(files[p].games) :
                   LET rec == files[p].games[n]
                   IN  IF p = "retroachievements" /\ rec.hasSubsets
                       THEN \A j \in 1..Len(rec.subsets) :
                                Normalized(p, EntryIdOf(rec, rec.subsets[j]),
                                           /\ rec.name = <<>>
                                           /\ \/ rec.subsets[j].key = BaseKey
                                              \/ rec.subsets[j].name = <<>>,
                                           rec.subsets[j].coverImage)
                       ELSE Normalized(p, rec.platformId, rec.name = <<>>,
                                       rec.coverImage)

\* a nameless non-Base subset of a nameless record has been loaded next to a
\* nameless gog record, each without a cover of its own
C22_Witness ==
    /\ Loaded
    /\ \E r \in SubsetParents :
           /\ r.name = <<>>
           /\ \E i \in DerivedFrom(r) :
                  /\ achievements[i].isSubset
                  /\ achievements[i].name = FallbackName(<< "7" >>)
                  /\ achievements[i].coverImage
                         = << "assets/covers/", "retroachievements", "/", "7",
                              ".jpg" >>
    /\ \E i \in 1..Len(achievements) :
           /\ achievements[i].platform = "gog"
           /\ achievements[i].name = FallbackName(<< "2" >>)
           /\ achievements[i].coverImage
                  = << "assets/covers/", "gog", "/", "2", ".jpg" >>

\* C23: a raw record without a platformId is skipped: it is no entry of the
\* base list, the load does not fail because of it, and the records that do
\* have an id are loaded all the same.
C23_RecordWithoutIdIsSkipped ==
    LoadDone =>
        /\ \A i \in 1..Len(achievements) : achievements[i].platformId # <<>>
        /\ \A e \in LoadedIds :
               e[2] # <<>> =>
                   /\ phase = "ready"
                   /\ EntriesOf(e[1], e[2]) # {}

(***************************************************************************)
(* Frame properties of the event handlers (Spec)                           *)
(***************************************************************************)
\* C24: the base list is immutable after the load: no platform change, tag
\* toggle, search or sort-key change alters its contents or its order, and
\* the array the filters replace and the sort reorders in place is never the
\* array of the base list.
C24_BaseListImmutableAfterLoad ==
    [][phase = "ready" =>
           /\ achievements' = achievements
           /\ ~viewSharesBase']_vars

\* a sort-key change has reordered the whole view while the base list is
\* still the list the load built
C24_Witness ==
    /\ Loaded
    /\ achievements = loadedAchievements(files)
    /\ currentSort # "recent"
    /\ Len(filteredAchievements) = Len(achievements)
    /\ filteredAchievements # achievements

\* the tags of the games of a list
TagsOf(list) == UNION {TagSet(list[i]) : i \in 1..Len(list)}

\* C25: after the load the tag universe is the union of the tags of all
\* records of the base list, the tag-filter list shows each of its tags once,
\* in ascending lexical order, and no filter, search or sort event changes
\* the universe or the list.
C25_TagUniverseFixedAtLoad ==
    /\ [](Loaded =>
              /\ allTags = TagsOf(achievements)
              /\ {tagList[j] : j \in 1..Len(tagList)} = allTags
              /\ \A j, k \in 1..Len(tagList) :
                     j < k => TagCode(tagList[j]) < TagCode(tagList[k]))
    /\ [][phase = "ready" => allTags' = allTags /\ tagList' = tagList]_vars

\* both tags are offered, in order, while the filters in force leave a view
\* without one of them
C25_Witness ==
    /\ Loaded
    /\ tagList = << "x", "y" >>
    /\ includedTags # {}
    /\ TagsOf(filteredAchievements) # allTags

\* C26: normalization never loses a game: every raw record of a platform
\* list that was loaded has at least one entry in the base list, one entry
\* for a plain record and one for each subset for a RetroAchievements record
\* with a subsets mapping.
C26_NoRecordIsLost ==
    Loaded =>
        \A p \in {q \in PlatformNames : files[q].ok} :
            \A n \in 1..Len(files[p].games) :
                LET rec == files[p].games[n]
                IN  IF p = "retroachievements" /\ rec.hasSubsets
                    THEN /\ DerivedFrom(rec) # {}
                         /\ Cardinality(DerivedFrom(rec)) = Len(rec.subsets)
                    ELSE Cardinality(EntriesOf(p, rec.platformId)) = 1

(***************************************************************************)
(* The counters and the progress calculator (Spec)                         *)
(***************************************************************************)
\* the number n as an argument of calculate
CountArg(n) == [k |-> "int", n |-> n]

\* calculate(totalAchievements, unlockedAchievements).isComplete for a game
CalculatedComplete(game) ==
    calculate(CountArg(game.totalAchievements),
              CountArg(game.unlockedAchievements)).isComplete

\* C27: the completed-games counter and the progress calculator agree on
\* every record: updateStats counts a game of the view exactly when
\* calculate(totalAchievements, unlockedAchievements).isComplete holds for it.
C27_CounterAgreesWithCalculate ==
    Loaded =>
        /\ \A i \in 1..Len(filteredAchievements) :
               countsAsCompleted(filteredAchievements[i])
                   <=> CalculatedComplete(filteredAchievements[i])
        /\ completedGamesText
               = Cardinality({i \in 1..Len(filteredAchievements) :
                                 CalculatedComplete(filteredAchievements[i])})

(***************************************************************************)
(* Properties of the cards (SpecLoad)                                      *)
(***************************************************************************)
\* the record the activated card was rendered from
CardRecord ==
    achievements[CHOOSE i \in 1..Len(achievements) :
                     achievements[i].uid = activatedCard]

\* C29: activating the card of a game of the view opens the link of that
\* same record: the handler finds the record the card was rendered from and
\* hands getGameLink of it to window.open, whatever the base list is.
C29_CardOpensItsOwnGame ==
    activatedCard # NoGame =>
        /\ activatedGame = activatedCard
        /\ openedLink = getGameLink(CardRecord)

(***************************************************************************)
(* Properties of the search box (SpecSearch)                               *)
(***************************************************************************)
\* the counters show the sums over the list
StatsOf(list) ==
    /\ totalAchievementsText = UnlockedUpTo(list, Len(list))
    /\ completedGamesText
           = Cardinality({i \in 1..Len(list) :
                             /\ list[i].totalAchievements > 0
                             /\ list[i].unlockedAchievements
                                    = list[i].totalAchievements})

\* C30: the search input is debounced: at most one search timer is pending
\* at any time; an input event arms the one timer and runs no filter, so
\* the query, the view and the counters do not change between the inputs of
\* a burst; a firing timer is the only one, sets searchQuery to the input's
\* current value in lower case and runs filter, sort and stats again; and
\* once the input stops changing the timer does fire, after which the query
\* is the lowercased input for good.
C30_SearchIsDebounced ==
    /\ [](searchTimeout <= 1)
    /\ [][inputValue' # inputValue =>
              /\ searchTimeout' = 1
              /\ UNCHANGED << searchQuery, filteredAchievements,
                              totalAchievementsText, completedGamesText >>]_vars
    /\ [][searchTimeout' < searchTimeout =>
              /\ searchTimeout' = 0
              /\ searchQuery' = toLowerCase(inputValue)
              /\ IsArrangementOf(
                     filteredAchievements',
                     FilteredBase(achievements, currentPlatform, includedTags,
                                  excludedTags, toLowerCase(inputValue)))
              /\ filteredAchievements'
                     = applySorting(filteredAchievements', currentSort)
              /\ StatsOf(filteredAchievements)']_vars
    /\ (<>[][inputValue' = inputValue]_vars)
           => <>[](searchTimeout = 0 /\ searchQuery = toLowerCase(inputValue))

\* the timer of the input 'Ab' has fired: the query is 'ab' and the view is
\* down to the one game whose name holds it
C30_Witness ==
    /\ Loaded
    /\ searchTimeout = 0
    /\ inputValue = << "A", "b" >>
    /\ searchQuery = << "a", "b" >>
    /\ Len(filteredAchievements) = 1
    /\ Len(achievements) > 1

====
